---- MODULE Spec2Model ----
(***************************************************************************)
(* Model of lib/dag.py: DAGBuilder, the dependency graph of test suites,   *)
(* its construction (_build, _detect_cycles), the level scheduler          *)
(* (get_execution_order, get_parallel_groups) and the runtime tracker      *)
(* (mark_executed, is_ready, get_ready_suites, get_stats).                 *)
(*                                                                         *)
(* A Python dict is modelled as a function plus the sequence of its keys   *)
(* in insertion order.  A Python set of strings has no defined iteration   *)
(* order: every loop over a set takes its order from a parameter that the  *)
(* calling action chooses freely among all orders of that set.             *)
(***************************************************************************)
EXTENDS Integers, Sequences, FiniteSets, TLC

\* ---------------------------------------------------------------- bounds
MaxSuites == 3
MaxDeps == 2
MaxEdges == 3
MaxParallel == 2

NameOrder == <<"A", "B", "C">>
Names == {NameOrder[i] : i \in 1..Len(NameOrder)}
Statuses == {"passed", "failed"}
None == "None"

\* ---------------------------------------------------------------- helpers
Range(s) == {s[i] : i \in 1..Len(s)}

RECURSIVE Flatten(_)
Flatten(ss) == IF ss = <<>> THEN <<>> ELSE Head(ss) \o Flatten(Tail(ss))

\* list.index(x): the first position of x in s
Index(s, x) == CHOOSE i \in 1..Len(s) : s[i] = x /\ \A j \in 1..(i - 1) : s[j] # x

\* every order in which the members of a set can be iterated
RECURSIVE Perms(_)
Perms(S) ==
    IF S = {} THEN {<<>>}
    ELSE UNION {{<<x>> \o p : p \in Perms(S \ {x})} : x \in S}

\* every choice of one iteration order per set, for the sets sets[k], k in keys
RECURSIVE OrderSeqs(_, _)
OrderSeqs(keys, sets) ==
    IF keys = <<>> THEN {<<>>}
    ELSE {<<p>> \o rest : p \in Perms(sets[Head(keys)]),
                          rest \in OrderSeqs(Tail(keys), sets)}

Orders(keys, sets) ==
    {[k \in Range(keys) |-> os[Index(keys, k)]] : os \in OrderSeqs(keys, sets)}

Dependencies(g) == [n \in DOMAIN g |-> g[n].dependencies]
Dependents(g) == [n \in DOMAIN g |-> g[n].dependents]

\* ---------------------------------------------------------------- input
\* TestSuite.dependencies: lists of at most n distinct names
DepLists(n) == {s \in UNION {[1..k -> Names] : k \in 0..n} :
                   \A i, j \in 1..Len(s) : i # j => s[i] # s[j]}

\* TestSuite, reduced to the fields the graph reads
TestSuite(name, dependencies) == [name |-> name, dependencies |-> dependencies]

\* The code never looks inside a name, so every suite list is a renaming of one
\* whose suite names first occur in the order of NameOrder: only those are
\* drawn.  Dependency names are not restricted.
NextNames(seen) ==
    {NameOrder[i] : i \in 1..(IF seen < Len(NameOrder) THEN seen + 1 ELSE seen)}

\* plan.suites: the lists of n suites that name at most e dependencies in all,
\* after `seen` names were used
RECURSIVE SuiteListsOf(_, _, _)
SuiteListsOf(n, e, seen) ==
    IF n = 0 THEN {<<>>}
    ELSE UNION {UNION {{<<TestSuite(name, d)>> \o rest :
                          rest \in SuiteListsOf(n - 1, e - Len(d),
                                       IF seen < Len(NameOrder) /\ name = NameOrder[seen + 1]
                                       THEN seen + 1 ELSE seen)}
                       : d \in DepLists(IF e < MaxDeps THEN e ELSE MaxDeps)}
                : name \in NextNames(seen)}

SuiteLists == UNION {SuiteListsOf(n, MaxEdges, 0) : n \in 1..MaxSuites}

\* ---------------------------------------------------------------- DAGNode
DAGNode(suite) ==
    [suite |-> suite, dependencies |-> {}, dependents |-> {},
     executed |-> FALSE, status |-> None]

\* ---------------------------------------------------------------- _build
\* first loop of _build: one node per suite; a repeated name replaces the
\* node and keeps its position in the dict
RECURSIVE CreateNodes(_, _, _)
CreateNodes(ss, g, keys) ==
    IF ss = <<>> THEN [nodes |-> g, keys |-> keys]
    ELSE LET s == Head(ss) IN
         IF s.name \in DOMAIN g
         THEN CreateNodes(Tail(ss), [g EXCEPT ![s.name] = DAGNode(s)], keys)
         ELSE CreateNodes(Tail(ss),
                          [n \in DOMAIN g \cup {s.name} |->
                              IF n = s.name THEN DAGNode(s) ELSE g[n]],
                          Append(keys, s.name))

\* mutant: the reverse relationship is not recorded
AddEdge_NoReverse(g, name, dep) ==
    [g EXCEPT ![name].dependencies = @ \cup {dep}]

AddEdge(g, name, dep) ==
    LET g1 == [g EXCEPT ![name].dependencies = @ \cup {dep}]
    IN [g1 EXCEPT ![dep].dependents = @ \cup {name}]

RECURSIVE BuildEdges(_, _, _, _)
\* mutant: a dependency that is no node is skipped instead of raising
BuildEdges_SkipUnknown(ss, i, j, g) ==
    IF i > Len(ss) THEN [raised |-> FALSE, nodes |-> g, suite |-> "", missing |-> ""]
    ELSE IF j > Len(ss[i].dependencies) THEN BuildEdges(ss, i + 1, 1, g)
    ELSE LET dep == ss[i].dependencies[j] IN
         IF dep \notin DOMAIN g
         THEN BuildEdges(ss, i, j + 1, g)
         ELSE BuildEdges(ss, i, j + 1, AddEdge(g, ss[i].name, dep))

\* second loop of _build: suite i, dependency j
BuildEdges(ss, i, j, g) ==
    IF i > Len(ss) THEN [raised |-> FALSE, nodes |-> g, suite |-> "", missing |-> ""]
    ELSE IF j > Len(ss[i].dependencies) THEN BuildEdges(ss, i + 1, 1, g)
    ELSE LET dep == ss[i].dependencies[j] IN
         IF dep \notin DOMAIN g
         THEN [raised |-> TRUE, nodes |-> g, suite |-> ss[i].name, missing |-> dep]
         ELSE BuildEdges(ss, i, j + 1, AddEdge(g, ss[i].name, dep))

\* ---------------------------------------------------------------- _detect_cycles
WHITE == 0
GRAY == 1
BLACK == 2

\* dfs(node_name), and its loop over the dependencies from the i-th on;
\* ord[n] is the order in which the set nodes[n].dependencies is iterated
RECURSIVE Dfs(_, _, _, _), DfsDeps(_, _, _, _, _)
\* mutant: the reported cycle is the whole path, not the part from cycle_start
DfsDeps_WholePath(name, i, color, path, ord) ==
    IF i > Len(ord[name]) THEN [raised |-> FALSE, color |-> color, cycle |-> <<>>]
    ELSE LET dep == ord[name][i] IN
         IF color[dep] = GRAY
         THEN [raised |-> TRUE, color |-> color, cycle |-> path \o <<dep>>]
         ELSE IF color[dep] = WHITE
         THEN LET r == Dfs(dep, color, path, ord) IN
              IF r.raised THEN r ELSE DfsDeps(name, i + 1, r.color, path, ord)
         ELSE DfsDeps(name, i + 1, color, path, ord)

Dfs(name, color, path, ord) ==
    LET r == DfsDeps(name, 1, [color EXCEPT ![name] = GRAY], Append(path, name), ord)
    IN IF r.raised THEN r
       ELSE [raised |-> FALSE, color |-> [r.color EXCEPT ![name] = BLACK], cycle |-> <<>>]

DfsDeps(name, i, color, path, ord) ==
    IF i > Len(ord[name]) THEN [raised |-> FALSE, color |-> color, cycle |-> <<>>]
    ELSE LET dep == ord[name][i] IN
         IF color[dep] = GRAY
         THEN [raised |-> TRUE, color |-> color,
               cycle |-> SubSeq(path, Index(path, dep), Len(path)) \o <<dep>>]
         ELSE IF color[dep] = WHITE
         THEN LET r == Dfs(dep, color, path, ord) IN
              IF r.raised THEN r ELSE DfsDeps(name, i + 1, r.color, path, ord)
         ELSE DfsDeps(name, i + 1, color, path, ord)

RECURSIVE DetectFrom(_, _, _, _)
\* mutant: the traversal starts from the first node only
DetectFrom_FirstRootOnly(keys, i, color, ord) ==
    IF i > 1 \/ i > Len(keys) THEN [raised |-> FALSE, color |-> color, cycle |-> <<>>]
    ELSE IF color[keys[i]] = WHITE
    THEN LET r == Dfs(keys[i], color, <<>>, ord) IN
         IF r.raised THEN r ELSE DetectFrom(keys, i + 1, r.color, ord)
    ELSE DetectFrom(keys, i + 1, color, ord)

\* the loop over self.nodes from the i-th key on
DetectFrom(keys, i, color, ord) ==
    IF i > Len(keys) THEN [raised |-> FALSE, color |-> color, cycle |-> <<>>]
    ELSE IF color[keys[i]] = WHITE
    THEN LET r == Dfs(keys[i], color, <<>>, ord) IN
         IF r.raised THEN r ELSE DetectFrom(keys, i + 1, r.color, ord)
    ELSE DetectFrom(keys, i + 1, color, ord)

\* mutant: the constructor does not run the traversal
DetectCycles_NotRun(keys, ord) ==
    [raised |-> FALSE, color |-> [n \in Range(keys) |-> WHITE], cycle |-> <<>>]

DetectCycles(keys, ord) ==
    DetectFrom(keys, 1, [n \in Range(keys) |-> WHITE], ord)

\* ---------------------------------------------------------------- get_execution_order
RECURSIVE UpdateDependents(_, _, _, _)
\* mutant: a dependent is queued at every decrement, not only when it reaches 0
UpdateDependents_QueueEveryDecrement(deps, j, in_degree, queue) ==
    IF j > Len(deps) THEN [in_degree |-> in_degree, queue |-> queue]
    ELSE LET dependent == deps[j]
             d1 == [in_degree EXCEPT ![dependent] = @ - 1]
         IN UpdateDependents(deps, j + 1, d1, Append(queue, dependent))

\* mutant: a dependent that reaches zero is put at the front of the queue
UpdateDependents_QueueFront(deps, j, in_degree, queue) ==
    IF j > Len(deps) THEN [in_degree |-> in_degree, queue |-> queue]
    ELSE LET dependent == deps[j]
             d1 == [in_degree EXCEPT ![dependent] = @ - 1]
         IN UpdateDependents(deps, j + 1, d1,
                             IF d1[dependent] = 0 THEN <<dependent>> \o queue ELSE queue)

\* the loop over node.dependents from the j-th on, in the order deps
UpdateDependents(deps, j, in_degree, queue) ==
    IF j > Len(deps) THEN [in_degree |-> in_degree, queue |-> queue]
    ELSE LET dependent == deps[j]
             d1 == [in_degree EXCEPT ![dependent] = @ - 1]
         IN UpdateDependents(deps, j + 1, d1,
                             IF d1[dependent] = 0 THEN Append(queue, dependent) ELSE queue)

\* the loop over current_group from the i-th member on; it sets node.executed
RECURSIVE ProcessGroup(_, _, _, _, _, _)
ProcessGroup(group, i, in_degree, queue, g, ord) ==
    IF i > Len(group) THEN [in_degree |-> in_degree, queue |-> queue, nodes |-> g]
    ELSE LET r == UpdateDependents(ord[group[i]], 1, in_degree, queue)
         IN ProcessGroup(group, i + 1, r.in_degree, r.queue,
                         [g EXCEPT ![group[i]].executed = TRUE], ord)

\* the while loop
RECURSIVE Levels(_, _, _, _, _)
\* mutant: one node is taken from the queue per round, as in plain Kahn
Levels_OneAtATime(queue, in_degree, g, groups, ord) ==
    IF queue = <<>> THEN [groups |-> groups, nodes |-> g]
    ELSE LET r == ProcessGroup(<<Head(queue)>>, 1, in_degree, Tail(queue), g, ord)
         IN Levels(r.queue, r.in_degree, r.nodes, Append(groups, <<Head(queue)>>), ord)

Levels(queue, in_degree, g, groups, ord) ==
    IF queue = <<>> THEN [groups |-> groups, nodes |-> g]
    ELSE LET r == ProcessGroup(queue, 1, in_degree, <<>>, g, ord)
         IN Levels(r.queue, r.in_degree, r.nodes, Append(groups, queue), ord)

InDegree(g) == [n \in DOMAIN g |-> Cardinality(g[n].dependencies)]

\* mutant: the frontier is seeded with every node of in-degree <= 1
ExecutionOrder_SeedOffByOne(g, keys, ord) ==
    LET in_degree == InDegree(g)
        Zero(n) == in_degree[n] <= 1
        r == Levels(SelectSeq(keys, Zero), in_degree, g, <<>>, ord)
        Unexecuted(n) == ~r.nodes[n].executed
    IN [groups |-> r.groups, nodes |-> r.nodes,
        raised |-> IF SelectSeq(keys, Unexecuted) # <<>>
                   THEN "SchedulingIncomplete" ELSE "none"]

\* mutant: nodes already executed are not scheduled again
ExecutionOrder_SkipsExecuted(g, keys, ord) ==
    LET in_degree == InDegree(g)
        Zero(n) == in_degree[n] = 0 /\ ~g[n].executed
        r == Levels(SelectSeq(keys, Zero), in_degree, g, <<>>, ord)
        Unexecuted(n) == ~r.nodes[n].executed
    IN [groups |-> r.groups, nodes |-> r.nodes,
        raised |-> IF SelectSeq(keys, Unexecuted) # <<>>
                   THEN "SchedulingIncomplete" ELSE "none"]

\* ord[n] is the order in which the set nodes[n].dependents is iterated
ExecutionOrder(g, keys, ord) ==
    LET in_degree == InDegree(g)
        Zero(n) == in_degree[n] = 0
        r == Levels(SelectSeq(keys, Zero), in_degree, g, <<>>, ord)
        Unexecuted(n) == ~r.nodes[n].executed
    IN [groups |-> r.groups, nodes |-> r.nodes,
        raised |-> IF SelectSeq(keys, Unexecuted) # <<>>
                   THEN "SchedulingIncomplete" ELSE "none"]

\* ---------------------------------------------------------------- get_parallel_groups
RECURSIVE Chunks(_, _, _)
\* mutant: the slice ends one element late, group[i:i + max_parallel + 1]
Chunks_SliceOneLonger(group, i, max_parallel) ==
    IF i >= Len(group) THEN <<>>
    ELSE <<SubSeq(group, i + 1,
                  IF i + max_parallel + 1 < Len(group)
                  THEN i + max_parallel + 1 ELSE Len(group))>>
         \o Chunks(group, i + max_parallel, max_parallel)

\* range(0, len(group), max_parallel) from i on, for a positive step
Chunks(group, i, max_parallel) ==
    IF i >= Len(group) THEN <<>>
    ELSE <<SubSeq(group, i + 1,
                  IF i + max_parallel < Len(group) THEN i + max_parallel ELSE Len(group))>>
         \o Chunks(group, i + max_parallel, max_parallel)

\* mutant: the plan is chunked as one list, across group boundaries
SplitGroups_AcrossGroups(groups, max_parallel) ==
    IF max_parallel > 0 THEN Chunks(Flatten(groups), 0, max_parallel) ELSE <<>>

\* a negative step makes range(0, n, step) empty; a zero step raises
RECURSIVE SplitGroups(_, _)
SplitGroups(groups, max_parallel) ==
    IF groups = <<>> THEN <<>>
    ELSE (IF max_parallel > 0 THEN Chunks(Head(groups), 0, max_parallel) ELSE <<>>)
         \o SplitGroups(Tail(groups), max_parallel)

\* ---------------------------------------------------------------- is_ready, get_ready_suites
\* mutant: any() in place of all(): one executed dependency is enough
is_ready_AnyDependency(g, name) ==
    IF name \notin DOMAIN g THEN FALSE
    ELSE \/ g[name].dependencies = {}
         \/ \E d \in g[name].dependencies : g[d].executed

\* mutant: a dependency that failed does not count as satisfied
is_ready_FailureBlocks(g, name) ==
    IF name \notin DOMAIN g THEN FALSE
    ELSE \A dep \in g[name].dependencies : g[dep].executed /\ g[dep].status # "failed"

is_ready(g, name) ==
    IF name \notin DOMAIN g THEN FALSE
    ELSE \A dep \in g[name].dependencies : g[dep].executed

\* mutant: executed suites are not filtered out
get_ready_suites_KeepsExecuted(g, keys) ==
    LET Ready(name) == is_ready(g, name)
    IN SelectSeq(keys, Ready)

get_ready_suites(g, keys) ==
    LET Ready(name) == ~g[name].executed /\ is_ready(g, name)
    IN SelectSeq(keys, Ready)

\* ---------------------------------------------------------------- mark_executed
\* mutant: the flag records whether the suite passed
mark_executed_FlagIsPassed(g, name, status) ==
    IF name \in DOMAIN g
    THEN [g EXCEPT ![name].executed = (status = "passed"), ![name].status = status]
    ELSE g

\* mutant: the dependencies of the node are marked executed with it
mark_executed_AlsoDependencies(g, name, status) ==
    IF name \in DOMAIN g
    THEN [n \in DOMAIN g |->
            IF n = name THEN [g[n] EXCEPT !.executed = TRUE, !.status = status]
            ELSE IF n \in g[name].dependencies THEN [g[n] EXCEPT !.executed = TRUE]
            ELSE g[n]]
    ELSE g

\* mutant: a node is marked only when its dependencies are executed
mark_executed_RequiresDependencies(g, name, status) ==
    IF name \in DOMAIN g /\ \A d \in g[name].dependencies : g[d].executed
    THEN [g EXCEPT ![name].executed = TRUE, ![name].status = status]
    ELSE g

mark_executed(g, name, status) ==
    IF name \in DOMAIN g
    THEN [g EXCEPT ![name].executed = TRUE, ![name].status = status]
    ELSE g

NumExecuted(g) == Cardinality({n \in DOMAIN g : g[n].executed})

\* ---------------------------------------------------------------- state
VARIABLES
    suites,     \* plan.suites, the input list
    phase,      \* "new" before DAGBuilder(plan), then "built" or "failed"
    nodes,      \* self.nodes: name -> DAGNode
    nodeKeys,   \* the keys of self.nodes in insertion order
    err,        \* the ValueError raised by the constructor
    ret,        \* the last call on the graph and what it returned
    twin,       \* self.nodes of a second DAGBuilder of the same plan, <<>> if none
    orch        \* the callers of the graph: orchestrator and worker threads

vars == <<suites, phase, nodes, nodeKeys, err, ret, twin, orch>>

NoErr == [kind |-> "none", suite |-> "", missing |-> "", cycle |-> <<>>]
NoStats == [total_suites |-> 0, executed |-> 0, pending |-> 0, parallel_groups |-> 0]
\* dispatches[n], running[n]: workers started for n, and still running;
\* ready: what the last get_ready_suites() returned and is not yet reported;
\* marks[n]: mark_executed calls that wrote node n; marking: the calls of
\* mark_executed that have set the flag and not yet the status
NoOrch == [dispatches |-> [n \in Names |-> 0], running |-> [n \in Names |-> 0],
           pollDue |-> TRUE, ready |-> {}, marks |-> [n \in Names |-> 0],
           marking |-> {}]
NoRet == [op |-> "none", arg |-> "", max_parallel |-> 0, groups |-> <<>>,
          ready |-> FALSE, names |-> <<>>, stats |-> NoStats, raised |-> "none"]

Init ==
    /\ suites \in SuiteLists
    /\ phase = "new"
    /\ nodes = <<>>
    /\ nodeKeys = <<>>
    /\ err = NoErr
    /\ ret = NoRet
    /\ twin = <<>>
    /\ orch = NoOrch

\* DAGBuilder(plan): __init__ -> _build -> _detect_cycles.  When the
\* constructor raises, no DAGBuilder object exists.
Construct ==
    /\ phase = "new"
    /\ LET c == CreateNodes(suites, <<>>, <<>>)
           b == BuildEdges(suites, 1, 1, c.nodes)
       IN IF b.raised
          THEN /\ phase' = "failed"
               /\ err' = [NoErr EXCEPT !.kind = "UnknownDependency",
                                       !.suite = b.suite, !.missing = b.missing]
               /\ UNCHANGED <<nodes, nodeKeys>>
          ELSE \E ord \in Orders(c.keys, Dependencies(b.nodes)) :
                  LET d == DetectCycles(c.keys, ord) IN
                  IF d.raised
                  THEN /\ phase' = "failed"
                       /\ err' = [NoErr EXCEPT !.kind = "CircularDependency",
                                               !.cycle = d.cycle]
                       /\ UNCHANGED <<nodes, nodeKeys>>
                  ELSE /\ phase' = "built"
                       /\ nodes' = b.nodes
                       /\ nodeKeys' = c.keys
                       /\ UNCHANGED err
    /\ UNCHANGED <<suites, ret, twin, orch>>

GetExecutionOrder ==
    /\ phase = "built"
    /\ \E ord \in Orders(nodeKeys, Dependents(nodes)) :
          LET r == ExecutionOrder(nodes, nodeKeys, ord) IN
          /\ nodes' = r.nodes
          /\ ret' = [NoRet EXCEPT !.op = "get_execution_order",
                                  !.groups = IF r.raised = "none" THEN r.groups ELSE <<>>,
                                  !.raised = r.raised]
    /\ UNCHANGED <<suites, phase, nodeKeys, err, twin, orch>>

GetParallelGroups ==
    /\ phase = "built"
    /\ \E max_parallel \in -1..MaxParallel :
       \E ord \in Orders(nodeKeys, Dependents(nodes)) :
          LET r == ExecutionOrder(nodes, nodeKeys, ord)
              raised == IF r.raised # "none" THEN r.raised
                        ELSE IF max_parallel = 0 /\ r.groups # <<>>
                        THEN "ValueError" ELSE "none"
          IN
          /\ nodes' = r.nodes
          /\ ret' = [NoRet EXCEPT !.op = "get_parallel_groups",
                                  !.max_parallel = max_parallel,
                                  !.groups = IF raised = "none"
                                             THEN SplitGroups(r.groups, max_parallel)
                                             ELSE <<>>,
                                  !.raised = raised]
    /\ UNCHANGED <<suites, phase, nodeKeys, err, twin, orch>>

MarkExecuted ==
    /\ phase = "built"
    /\ \E name \in Names, status \in Statuses :
          /\ nodes' = mark_executed(nodes, name, status)
          /\ ret' = [NoRet EXCEPT !.op = "mark_executed", !.arg = name]
    /\ UNCHANGED <<suites, phase, nodeKeys, err, twin, orch>>

IsReady ==
    /\ phase = "built"
    /\ \E name \in Names :
          ret' = [NoRet EXCEPT !.op = "is_ready", !.arg = name,
                               !.ready = is_ready(nodes, name)]
    /\ UNCHANGED <<suites, phase, nodes, nodeKeys, err, twin, orch>>

GetReadySuites ==
    /\ phase = "built"
    /\ ret' = [NoRet EXCEPT !.op = "get_ready_suites",
                            !.names = get_ready_suites(nodes, nodeKeys)]
    /\ UNCHANGED <<suites, phase, nodes, nodeKeys, err, twin, orch>>

\* total, executed and pending are computed before get_execution_order() runs
GetStats ==
    /\ phase = "built"
    /\ \E ord \in Orders(nodeKeys, Dependents(nodes)) :
          LET total == Len(nodeKeys)
              executed == NumExecuted(nodes)
              r == ExecutionOrder(nodes, nodeKeys, ord)
          IN
          /\ nodes' = r.nodes
          /\ ret' = [NoRet EXCEPT !.op = "get_stats",
                                  !.stats = IF r.raised = "none"
                                            THEN [total_suites |-> total,
                                                  executed |-> executed,
                                                  pending |-> total - executed,
                                                  parallel_groups |-> Len(r.groups)]
                                            ELSE NoStats,
                                  !.raised = r.raised]
    /\ UNCHANGED <<suites, phase, nodeKeys, err, twin, orch>>

Next ==
    \/ Construct
    \/ GetExecutionOrder
    \/ GetParallelGroups
    \/ MarkExecuted
    \/ IsReady
    \/ GetReadySuites
    \/ GetStats

Spec == Init /\ [][Next]_vars

\* ---------------------------------------------------------------- the diamond plan
\* plan.suites = A, B depends on A, C depends on A, D depends on B and C
Diamond ==
    <<TestSuite("A", <<>>), TestSuite("B", <<"A">>),
      TestSuite("C", <<"A">>), TestSuite("D", <<"B", "C">>)>>

InitDiamond ==
    /\ suites = Diamond
    /\ phase = "new"
    /\ nodes = <<>>
    /\ nodeKeys = <<>>
    /\ err = NoErr
    /\ ret = NoRet
    /\ twin = <<>>
    /\ orch = NoOrch

SpecDiamond == InitDiamond /\ [][Next]_vars

\* ---------------------------------------------------------------- two runs
\* A second DAGBuilder(plan) of the same plan, driven by the same calls of
\* mark_executed as the first, with status strings of its own.
TwinConstruct ==
    /\ phase = "built"
    /\ twin = <<>>
    /\ twin' = BuildEdges(suites, 1, 1, CreateNodes(suites, <<>>, <<>>).nodes).nodes
    /\ UNCHANGED <<suites, phase, nodes, nodeKeys, err, ret, orch>>

TwinMarkExecuted ==
    /\ phase = "built"
    /\ twin # <<>>
    /\ \E name \in Names, status \in Statuses, twinStatus \in Statuses :
          /\ nodes' = mark_executed(nodes, name, status)
          /\ twin' = mark_executed(twin, name, twinStatus)
          /\ ret' = [NoRet EXCEPT !.op = "mark_executed", !.arg = name]
    /\ UNCHANGED <<suites, phase, nodeKeys, err, orch>>

TwinNext ==
    \/ Construct
    \/ TwinConstruct
    \/ TwinMarkExecuted

SpecTwin == Init /\ [][TwinNext]_vars

\* ================================================================ properties
\* The input list read as a graph, independently of the code.
InputNames(ss) == {ss[i].name : i \in 1..Len(ss)}
InputEdges(ss) ==
    UNION {{<<ss[i].name, d>> : d \in Range(ss[i].dependencies)} : i \in 1..Len(ss)}
Undeclared(ss) == {e \in InputEdges(ss) : e[2] \notin InputNames(ss)}
AllDeclared(ss) == Undeclared(ss) = {}
HasDuplicate(ss) == \E i, j \in 1..Len(ss) : i # j /\ ss[i].name = ss[j].name

RECURSIVE TransitiveClosure(_)
TransitiveClosure(E) ==
    LET E2 == E \cup {<<a[1], b[2]>> : a, b \in E}
        E3 == {e \in E2 : e \in E \/ \E a, b \in E : a[2] = b[1] /\ e = <<a[1], b[2]>>}
    IN IF E3 = E THEN E ELSE TransitiveClosure(E3)
HasCycle(E) == \E e \in TransitiveClosure(E) : e[1] = e[2]

\* the positions of a name in a plan
GroupsOf(groups, n) == {k \in 1..Len(groups) : n \in Range(groups[k])}
Occurrences(s, x) == Cardinality({i \in 1..Len(s) : s[i] = x})
Marked(n) == nodes[n].status # None

\* ---------------------------------------------------------------- C1
\* C1: on a constructed graph, after any calls of the tracker,
\* get_execution_order() does not raise "could not schedule all suites" and
\* the concatenation of its groups holds every node name exactly once.
C1_PlanCoversEverySuiteOnce ==
    ret.op = "get_execution_order" =>
        /\ ret.raised = "none"
        /\ \A n \in DOMAIN nodes : Occurrences(Flatten(ret.groups), n) = 1
        /\ Range(Flatten(ret.groups)) = DOMAIN nodes

C1_Witness ==
    /\ ret.op = "get_execution_order"
    /\ Len(ret.groups) = 2
    /\ Cardinality(DOMAIN nodes) = 3
    /\ \E n \in DOMAIN nodes : Marked(n)
    /\ \E n \in DOMAIN nodes : Cardinality(nodes[n].dependencies) = 2

\* ---------------------------------------------------------------- C2
\* C2: in the plan of get_execution_order() every suite stands in a group and
\* every group holding it has a strictly greater index than every group
\* holding one of its dependencies; so no group holds both ends of an edge.
C2_DependenciesInEarlierGroups ==
    (ret.op = "get_execution_order" /\ ret.raised = "none") =>
        \A n \in DOMAIN nodes :
            /\ GroupsOf(ret.groups, n) # {}
            /\ \A d \in nodes[n].dependencies :
                   /\ GroupsOf(ret.groups, d) # {}
                   /\ \A k \in GroupsOf(ret.groups, n), m \in GroupsOf(ret.groups, d) : m < k
            /\ \A k \in GroupsOf(ret.groups, n) :
                   nodes[n].dependencies \cap Range(ret.groups[k]) = {}

C2_Witness ==
    /\ ret.op = "get_execution_order"
    /\ Len(ret.groups) = 3
    /\ \E n \in DOMAIN nodes : Cardinality(nodes[n].dependencies) = 2

C4_CyclePathIsClosedLoopOfEdges ==
    err.kind = "CircularDependency" =>
        LET c == err.cycle IN
        /\ Len(c) >= 2
        /\ c[1] = c[Len(c)]
        /\ \A i \in 1..(Len(c) - 1) : <<c[i], c[i + 1]>> \in InputEdges(suites)
        /\ \A i, j \in 1..(Len(c) - 1) : i # j => c[i] # c[j]
        /\ InputEdges(suites) = {<<"A", "B">>, <<"B", "A">>} => {"A", "B"} \subseteq Range(c)

C4_Witness ==
    /\ err.kind = "CircularDependency"
    /\ Len(err.cycle) = 3
    /\ err.cycle[1] # suites[1].name
    /\ suites[1].dependencies # <<>>

\* ---------------------------------------------------------------- C5
\* the undeclared references of the input in the order _build meets them
FirstUndeclared(ss) ==
    LET i == CHOOSE i \in 1..Len(ss) :
                 /\ \E j \in 1..Len(ss[i].dependencies) :
                        ss[i].dependencies[j] \notin InputNames(ss)
                 /\ \A h \in 1..(i - 1) : \A j \in 1..Len(ss[h].dependencies) :
                        ss[h].dependencies[j] \in InputNames(ss)
        j == CHOOSE j \in 1..Len(ss[i].dependencies) :
                 /\ ss[i].dependencies[j] \notin InputNames(ss)
                 /\ \A h \in 1..(j - 1) : ss[i].dependencies[h] \in InputNames(ss)
    IN <<ss[i].name, ss[i].dependencies[j]>>

\* C5: when a descriptor names a dependency that is no suite of the input,
\* construction fails with the unknown-dependency error, which names a suite
\* and a name it lists that is undeclared (the first such reference of the
\* input, hence exactly that one when there is only one), also when the
\* input has a cycle; and no graph becomes available.
C5_UnknownDependencyRejected ==
    (phase # "new" /\ ~AllDeclared(suites)) =>
        /\ phase = "failed"
        /\ err.kind = "UnknownDependency"
        /\ <<err.suite, err.missing>> \in Undeclared(suites)
        /\ <<err.suite, err.missing>> = FirstUndeclared(suites)
        /\ nodes = <<>> /\ nodeKeys = <<>>

C5_Witness ==
    /\ phase = "failed"
    /\ err.kind = "UnknownDependency"
    /\ HasCycle(InputEdges(suites))
    /\ Cardinality(Undeclared(suites)) = 1

\* ---------------------------------------------------------------- C6
\* C6: an input in which two descriptors share a name is rejected with a
\* DuplicateSuite error; a later duplicate never replaces or merges into the
\* node of an earlier descriptor.
C6_DuplicateSuiteRejected ==
    (phase # "new" /\ HasDuplicate(suites)) =>
        phase = "failed" /\ err.kind = "DuplicateSuite"

\* ---------------------------------------------------------------- C7
\* C7: in every state of a constructed graph, B is a dependency of A iff A is
\* a dependent of B, and both sets hold only names of nodes.
C7_EdgeSetsAreInverse ==
    phase = "built" =>
        /\ \A a, b \in DOMAIN nodes :
               b \in nodes[a].dependencies <=> a \in nodes[b].dependents
        /\ \A a \in DOMAIN nodes :
               /\ nodes[a].dependencies \subseteq DOMAIN nodes
               /\ nodes[a].dependents \subseteq DOMAIN nodes

C7_Witness ==
    /\ phase = "built"
    /\ ret.op = "get_parallel_groups"
    /\ \E n \in DOMAIN nodes : Marked(n)
    /\ \E n \in DOMAIN nodes : Cardinality(nodes[n].dependents) = 2

\* ---------------------------------------------------------------- C8
ReadOps == {"get_execution_order", "get_parallel_groups", "get_stats",
            "is_ready", "get_ready_suites"}
Flags(g) == [n \in DOMAIN g |-> <<g[n].executed, g[n].status>>]

\* C8: get_execution_order, get_parallel_groups, get_stats, is_ready and
\* get_ready_suites leave every node's execution flag and status unchanged.
C8_ReadsLeaveFlagsUnchanged ==
    [][(phase = "built" /\ ret'.op \in ReadOps) => Flags(nodes') = Flags(nodes)]_vars

\* ---------------------------------------------------------------- C9
\* C9: is_ready(name), for a node of the graph, is true iff the node's own
\* execution flag is not set and the flag of every dependency is set.
C9_IsReadyIffUnexecutedAndDepsExecuted ==
    (ret.op = "is_ready" /\ ret.arg \in DOMAIN nodes) =>
        (ret.ready <=> /\ ~nodes[ret.arg].executed
                       /\ \A d \in nodes[ret.arg].dependencies : nodes[d].executed)

\* ---------------------------------------------------------------- C10
Outstanding(g, x) == {d \in g[x].dependencies : g[d].status = None}

\* C10: for a suite X with a dependency, over every step of the graph:
\* is_ready(X) is false while a dependency of X has not been reported through
\* mark_executed, it is true after the mark_executed call that reports the
\* last outstanding dependency, and once true it stays true.
C10_ReadyExactlyWhenLastDependencyReported ==
    [][phase = "built" =>
          \A x \in DOMAIN nodes : nodes[x].dependencies # {} =>
              /\ Outstanding(nodes', x) # {} => ~is_ready(nodes', x)
              /\ (Outstanding(nodes, x) # {} /\ Outstanding(nodes', x) = {})
                     => ret'.op = "mark_executed" /\ is_ready(nodes', x)
              /\ is_ready(nodes, x) => is_ready(nodes', x)]_vars

\* ---------------------------------------------------------------- C11
\* C11: two runs on the same graph that receive the same mark_executed calls
\* with different status strings agree, at every step, on is_ready of every
\* name and on get_ready_suites; a dependency reported as failed makes its
\* dependents ready as one reported as passed does.
C11_ReadinessIgnoresStatus ==
    twin # <<>> =>
        /\ \A name \in Names : is_ready(nodes, name) = is_ready(twin, name)
        /\ get_ready_suites(nodes, nodeKeys) = get_ready_suites(twin, nodeKeys)

C11_Witness ==
    /\ twin # <<>>
    /\ \E x \in DOMAIN nodes : \E d \in nodes[x].dependencies :
          /\ nodes[d].status = "failed"
          /\ twin[d].status = "passed"
          /\ is_ready(nodes, x)
          /\ x \in Range(get_ready_suites(twin, nodeKeys))

\* ---------------------------------------------------------------- C12
\* C12: get_ready_suites() returns, without repetition, exactly the suites
\* whose execution flag is not set and whose dependencies all have it set.
C12_ReadySuitesExact ==
    ret.op = "get_ready_suites" =>
        /\ Range(ret.names) =
               {n \in DOMAIN nodes :
                   /\ ~nodes[n].executed
                   /\ \A d \in nodes[n].dependencies : nodes[d].executed}
        /\ \A i, j \in 1..Len(ret.names) : i # j => ret.names[i] # ret.names[j]

C12_Witness ==
    /\ ret.op = "get_ready_suites"
    /\ Len(ret.names) = 1
    /\ \E n \in DOMAIN nodes : nodes[n].executed
    /\ \E n \in DOMAIN nodes : \E d \in nodes[n].dependencies :
          ~nodes[n].executed /\ ~nodes[d].executed

\* ---------------------------------------------------------------- C13
\* C13: a status that is set never changes, and mark_executed on a suite
\* that already has one is rejected with AlreadyExecuted.
C13_StatusSetAtMostOnce ==
    [][phase = "built" =>
          \A n \in DOMAIN nodes : Marked(n) =>
              /\ nodes'[n].status = nodes[n].status
              /\ (ret'.op = "mark_executed" /\ ret'.arg = n)
                     => ret'.raised = "AlreadyExecuted"]_vars

\* ---------------------------------------------------------------- C14
\* C14: no operation on a constructed graph clears an execution flag that
\* is set.
C14_ExecutedFlagMonotonic ==
    [][phase = "built" =>
          \A n \in DOMAIN nodes : nodes[n].executed => nodes'[n].executed]_vars

C14_Witness ==
    /\ ret.op = "mark_executed"
    /\ \E n \in DOMAIN nodes :
          nodes[n].executed /\ nodes[n].status = "failed" /\ ret.arg = n
    /\ \E n \in DOMAIN nodes : nodes[n].executed /\ nodes[n].status = None

\* ---------------------------------------------------------------- C15
\* the chunking of a plan G by ceiling mp, stated position by position
NumChunks(len, mp) == (len + mp - 1) \div mp
RECURSIVE ChunksBefore(_, _, _)
ChunksBefore(G, k, mp) ==
    IF k <= 1 THEN 0 ELSE ChunksBefore(G, k - 1, mp) + NumChunks(Len(G[k - 1]), mp)
IsChunkingOf(chunks, G, mp) ==
    /\ Len(chunks) = ChunksBefore(G, Len(G) + 1, mp)
    /\ \A c \in 1..Len(chunks) : Len(chunks[c]) >= 1 /\ Len(chunks[c]) <= mp
    /\ \A k \in 1..Len(G) : \A c \in 1..NumChunks(Len(G[k]), mp) :
           LET chunk == chunks[ChunksBefore(G, k, mp) + c]
               first == (c - 1) * mp + 1
               last == IF c * mp < Len(G[k]) THEN c * mp ELSE Len(G[k])
           IN /\ chunk = SubSeq(G[k], first, last)
              /\ c < NumChunks(Len(G[k]), mp) => Len(chunk) = mp
    /\ Flatten(chunks) = Flatten(G)

\* C15: for max_parallel >= 1 the chunks of get_parallel_groups have 1 to
\* max_parallel members, each is a contiguous piece of one group of the plan
\* of get_execution_order(), the chunks of a group are consecutive and all
\* but its last are full, and the chunks concatenate to the plan; a group of
\* 10 with ceiling 4 gives chunks of 4, 4 and 2.
C15_ChunksSplitEachGroup ==
    (ret.op = "get_parallel_groups" /\ ret.max_parallel >= 1) =>
        /\ ret.raised = "none"
        /\ \E ord \in Orders(nodeKeys, Dependents(nodes)) :
               IsChunkingOf(ret.groups, ExecutionOrder(nodes, nodeKeys, ord).groups,
                            ret.max_parallel)
        /\ Chunks([i \in 1..10 |-> i], 0, 4) = <<<<1, 2, 3, 4>>, <<5, 6, 7, 8>>, <<9, 10>>>>

C15_Witness ==
    /\ ret.op = "get_parallel_groups"
    /\ ret.max_parallel = 2
    /\ Len(ret.groups) = 2
    /\ Len(ret.groups[1]) = 2 /\ Len(ret.groups[2]) = 1
    /\ \A n \in DOMAIN nodes : nodes[n].dependencies = {}

\* ---------------------------------------------------------------- C16
\* C16: for max_parallel >= 1 every suite stands in a chunk of
\* get_parallel_groups with a strictly greater index than every chunk that
\* holds one of its dependencies, and the chunks hold as many suites as
\* there are nodes.
C16_ChunksKeepDependencyOrder ==
    (ret.op = "get_parallel_groups" /\ ret.max_parallel >= 1) =>
        /\ \A n \in DOMAIN nodes :
               /\ GroupsOf(ret.groups, n) # {}
               /\ \A d \in nodes[n].dependencies :
                      \A k \in GroupsOf(ret.groups, n), m \in GroupsOf(ret.groups, d) : m < k
        /\ Len(Flatten(ret.groups)) = Cardinality(DOMAIN nodes)

C16_Witness ==
    /\ ret.op = "get_parallel_groups"
    /\ ret.max_parallel = 1
    /\ Len(ret.groups) = 3
    /\ \E n \in DOMAIN nodes : Cardinality(nodes[n].dependents) = 2

\* ---------------------------------------------------------------- C17
\* C17: get_parallel_groups(max_parallel) with max_parallel <= 0 fails with
\* an error and returns no plan.
C17_NonPositiveCeilingRejected ==
    (ret.op = "get_parallel_groups" /\ ret.max_parallel <= 0) => ret.raised # "none"

\* ---------------------------------------------------------------- C18
\* C18: on the plan A, B depends on A, C depends on A, D depends on B and C,
\* get_execution_order() returns exactly [[A], [B, C], [D]] and
\* get_parallel_groups(1) exactly [[A], [B], [C], [D]], B before C in every
\* execution.
C18_DiamondPlanExact ==
    /\ ret.op = "get_execution_order" =>
           ret.groups = <<<<"A">>, <<"B", "C">>, <<"D">>>>
    /\ (ret.op = "get_parallel_groups" /\ ret.max_parallel = 1) =>
           ret.groups = <<<<"A">>, <<"B">>, <<"C">>, <<"D">>>>

\* ---------------------------------------------------------------- C19
\* C19: get_stats() returns total_suites = the number of nodes, executed =
\* the number of suites reported through mark_executed, pending =
\* total_suites - executed >= 0 and parallel_groups = the number of groups
\* of the plan.
C19_StatsCountReportedSuites ==
    ret.op = "get_stats" =>
        /\ ret.raised = "none"
        /\ ret.stats.total_suites = Cardinality(DOMAIN nodes)
        /\ ret.stats.executed = Cardinality({n \in DOMAIN nodes : Marked(n)})
        /\ ret.stats.pending = ret.stats.total_suites - ret.stats.executed
        /\ ret.stats.pending >= 0
        /\ \E ord \in Orders(nodeKeys, Dependents(nodes)) :
               ret.stats.parallel_groups = Len(ExecutionOrder(nodes, nodeKeys, ord).groups)

\* ---------------------------------------------------------------- C20
NodeEdges(g) == UNION {{<<n, d>> : d \in g[n].dependencies} : n \in DOMAIN g}

\* C20: a call of get_execution_order, get_parallel_groups, is_ready,
\* get_ready_suites, get_stats or mark_executed is only ever answered after
\* construction has finished without error, on a graph without a cycle and
\* without a dependency that is no node.
C20_QueriesOnlyOnValidatedGraph ==
    ret.op # "none" =>
        /\ phase = "built"
        /\ err = NoErr
        /\ AllDeclared(suites)
        /\ ~HasCycle(NodeEdges(nodes))
        /\ \A e \in NodeEdges(nodes) : e[2] \in DOMAIN nodes

C20_Witness ==
    /\ ret.op = "get_ready_suites"
    /\ Cardinality(NodeEdges(nodes)) = 3
    /\ \E n \in DOMAIN nodes : Marked(n)

\* ---------------------------------------------------------------- the polling orchestrator
\* The caller of the tracker that dispatches a worker for every suite
\* get_ready_suites() returns, polls at the start and again after a worker
\* has completed, and calls mark_executed once per completed worker.
Bump(count, names) == [n \in Names |-> count[n] + IF n \in names THEN 1 ELSE 0]

OrchPoll ==
    /\ phase = "built"
    /\ orch.pollDue
    /\ LET names == get_ready_suites(nodes, nodeKeys) IN
          /\ ret' = [NoRet EXCEPT !.op = "get_ready_suites", !.names = names]
          /\ orch' = [orch EXCEPT !.pollDue = FALSE,
                                  !.dispatches = Bump(@, Range(names)),
                                  !.running = Bump(@, Range(names))]
    /\ UNCHANGED <<suites, phase, nodes, nodeKeys, err, twin>>

WorkerCompletes ==
    /\ phase = "built"
    /\ \E name \in Names, status \in Statuses :
          /\ orch.running[name] > 0
          /\ nodes' = mark_executed(nodes, name, status)
          /\ ret' = [NoRet EXCEPT !.op = "mark_executed", !.arg = name]
          /\ orch' = [orch EXCEPT !.running[name] = @ - 1,
                                  !.marks = Bump(@, {name}),
                                  !.pollDue = TRUE]
    /\ UNCHANGED <<suites, phase, nodeKeys, err, twin>>

OrchNext ==
    \/ Construct
    \/ OrchPoll
    \/ WorkerCompletes

SpecOrch == Init /\ [][OrchNext]_vars

\* ---------------------------------------------------------------- C21
\* C21 as stated: under the polling orchestrator no suite is dispatched
\* twice.  A suite whose worker is still running is unexecuted, so the
\* poll after another worker's completion returns it again.
C21_Original ==
    \A n \in Names : orch.dispatches[n] <= 1

\* C21: under the polling orchestrator a suite is dispatched only while no
\* worker for it has completed: every dispatch of n happens with n
\* unexecuted, no mark_executed(n) done and all its dependencies executed.
C21_NoDispatchAfterCompletion ==
    [][\A n \in Names :
          orch'.dispatches[n] > orch.dispatches[n]
          => /\ n \in DOMAIN nodes
             /\ ~nodes[n].executed
             /\ orch.marks[n] = 0
             /\ \A d \in nodes[n].dependencies : nodes[d].executed]_vars

\* a suite dispatched a second time while its first worker was running,
\* both workers having completed since
C21_Witness ==
    \E n \in Names :
       /\ orch.dispatches[n] = 2
       /\ orch.marks[n] = 2
       /\ orch.running[n] = 0

\* ---------------------------------------------------------------- worker threads
\* mark_executed called from worker threads.  The method takes no lock and
\* is two assignments, node.executed = True and then node.status = status;
\* another thread can run between them.  orch.marking holds the calls that
\* have done the first assignment and not yet the second.
MarkSetsFlag ==
    /\ phase = "built"
    /\ \E name \in DOMAIN nodes, status \in Statuses :
          /\ <<name, status>> \notin orch.marking
          /\ nodes' = [nodes EXCEPT ![name].executed = TRUE]
          /\ orch' = [orch EXCEPT !.marking = @ \cup {<<name, status>>}]
    /\ UNCHANGED <<suites, phase, nodeKeys, err, ret, twin>>

MarkSetsStatus ==
    /\ phase = "built"
    /\ \E call \in orch.marking :
          /\ nodes' = [nodes EXCEPT ![call[1]].status = call[2]]
          /\ orch' = [orch EXCEPT !.marking = @ \ {call}]
          /\ ret' = [NoRet EXCEPT !.op = "mark_executed", !.arg = call[1]]
    /\ UNCHANGED <<suites, phase, nodeKeys, err, twin>>

\* the readers is_ready and get_ready_suites run between any two steps of
\* the workers (get_stats writes flags itself and is left to Spec)
ThreadsNext ==
    \/ Construct
    \/ MarkSetsFlag
    \/ MarkSetsStatus
    \/ IsReady
    \/ GetReadySuites

SpecThreads == Init /\ [][ThreadsNext]_vars

\* ---------------------------------------------------------------- C22
\* C22: with worker threads in mark_executed and reader threads, a reader
\* (which can run in every state of a built graph) never finds a node with
\* the execution flag set and the status unset, and two calls of
\* mark_executed for one suite are never both past the membership test at
\* the same time, so that both write the node.
C22_MarksSerializedReadsConsistent ==
    phase = "built" =>
       /\ \A n \in DOMAIN nodes : nodes[n].executed => nodes[n].status # None
       /\ \A c, d \in orch.marking : c[1] = d[1] => c = d

\* ---------------------------------------------------------------- C23
\* C23: mark_executed(name, status) on a node of the graph is accepted
\* whatever the state of the node's dependencies: it raises nothing and
\* leaves the node executed with a status, also when a dependency of the
\* node is unexecuted.
C23_MarkAcceptedOutOfOrder ==
    (phase = "built" /\ ret.op = "mark_executed" /\ ret.arg \in DOMAIN nodes)
    => /\ ret.raised = "none"
       /\ nodes[ret.arg].executed
       /\ Marked(ret.arg)

\* mark_executed has just been accepted for a suite one of whose
\* dependencies is unexecuted
C23_Witness ==
    /\ phase = "built"
    /\ ret.op = "mark_executed"
    /\ ret.arg \in DOMAIN nodes
    /\ nodes[ret.arg].executed
    /\ Marked(ret.arg)
    /\ \E d \in nodes[ret.arg].dependencies : ~nodes[d].executed /\ ~Marked(d)

\* ---------------------------------------------------------------- plans of four suites
\* plan.suites = A, B, C, D, each depending on at most MaxDeps of the
\* suites before it, listed in this order or in the reverse order
PlanOrder == <<"A", "B", "C", "D">>

PlanDeps(i) ==
    UNION {Perms(T) : T \in {U \in SUBSET {PlanOrder[j] : j \in 1..(i - 1)} :
                                Cardinality(U) <= MaxDeps}}

ForwardPlans ==
    {<<TestSuite("A", <<>>), TestSuite("B", b), TestSuite("C", c), TestSuite("D", d)>> :
        b \in PlanDeps(2), c \in PlanDeps(3), d \in PlanDeps(4)}

Reverse(s) == [i \in 1..Len(s) |-> s[Len(s) + 1 - i]]

InitPlans ==
    /\ suites \in ForwardPlans \cup {Reverse(p) : p \in ForwardPlans}
    /\ phase = "new"
    /\ nodes = <<>>
    /\ nodeKeys = <<>>
    /\ err = NoErr
    /\ ret = NoRet
    /\ twin = <<>>
    /\ orch = NoOrch

PlansNext ==
    \/ Construct
    \/ MarkExecuted
    \/ GetExecutionOrder

SpecPlans == InitPlans /\ [][PlansNext]_vars

\* ---------------------------------------------------------------- C24
\* the length of the longest dependency chain below n
RECURSIVE ChainBelow(_, _)
ChainBelow(g, n) ==
    IF g[n].dependencies = {} THEN 0
    ELSE LET below == {ChainBelow(g, d) : d \in g[n].dependencies}
         IN 1 + CHOOSE m \in below : \A k \in below : k <= m

\* C24: the plan get_execution_order() returns is the maximal-parallelism
\* levelling: no group is empty, and group k (counted from 0) holds exactly
\* the suites whose longest dependency chain has length k, so group 0 is
\* the suites without dependencies and every suite of a later group has a
\* dependency in the group just before.
C24_PlanIsLongestChainLevelling ==
    (phase = "built" /\ ret.op = "get_execution_order" /\ ret.raised = "none")
    => /\ \A k \in 1..Len(ret.groups) :
             /\ ret.groups[k] # <<>>
             /\ Range(ret.groups[k]) = {n \in DOMAIN nodes : ChainBelow(nodes, n) = k - 1}
       /\ \A n \in DOMAIN nodes : ChainBelow(nodes, n) < Len(ret.groups)
       /\ \A k \in 2..Len(ret.groups) : \A n \in Range(ret.groups[k]) :
             nodes[n].dependencies \cap Range(ret.groups[k - 1]) # {}

\* a plan of three levels returned for four suites, one level of two suites
C24_Witness ==
    /\ phase = "built"
    /\ ret.op = "get_execution_order"
    /\ Len(ret.groups) = 3
    /\ \E k \in 1..3 : Len(ret.groups[k]) = 2
    /\ \E n \in DOMAIN nodes : Cardinality(nodes[n].dependencies) = 2

\* ---------------------------------------------------------------- C26
\* the suite names of the input in the order of their first occurrence
RECURSIVE FirstOccurrences(_, _)
FirstOccurrences(ss, seen) ==
    IF ss = <<>> THEN <<>>
    ELSE IF Head(ss).name \in seen THEN FirstOccurrences(Tail(ss), seen)
    ELSE <<Head(ss).name>> \o FirstOccurrences(Tail(ss), seen \cup {Head(ss).name})

\* the position in group of the last member of group that n depends on
LastDecrement(g, group, n) ==
    LET at == {i \in 1..Len(group) : group[i] \in g[n].dependencies}
    IN CHOOSE i \in at : \A j \in at : j <= i

\* C26: in the plan of get_execution_order(), group 0 lists the suites
\* without dependencies in input order, and each later group lists its
\* members in the order in which the previous group's members, taken in
\* that group's order, took their in-degree to zero: a member comes before
\* another only if its last dependency in the previous group stands no
\* later than the other's.
C26_GroupsInZeroingOrder ==
    (phase = "built" /\ ret.op = "get_execution_order" /\ ret.raised = "none")
    => /\ ret.groups # <<>>
       /\ LET NoDeps(n) == \A i \in 1..Len(suites) :
                              suites[i].name = n => suites[i].dependencies = <<>>
          IN ret.groups[1] = SelectSeq(FirstOccurrences(suites, {}), NoDeps)
       /\ \A k \in 2..Len(ret.groups) :
             \A i, j \in 1..Len(ret.groups[k]) :
                i < j => LastDecrement(nodes, ret.groups[k - 1], ret.groups[k][i])
                         <= LastDecrement(nodes, ret.groups[k - 1], ret.groups[k][j])

\* two suites of one group brought to zero by different members of the
\* previous group, for a plan listed in reverse order
C26_Witness ==
    /\ phase = "built"
    /\ ret.op = "get_execution_order"
    /\ suites[1].name = "D"
    /\ Len(ret.groups) >= 2
    /\ Len(ret.groups[1]) = 2
    /\ Len(ret.groups[2]) = 2
    /\ LastDecrement(nodes, ret.groups[1], ret.groups[2][1])
       < LastDecrement(nodes, ret.groups[1], ret.groups[2][2])

\* ---------------------------------------------------------------- C25
\* the total, executed and pending counts of a get_stats() result
Counts(stats) == <<stats.total_suites, stats.executed, stats.pending>>

\* the counts get_stats() computes from the nodes g
CountsOf(g) ==
    <<Cardinality(DOMAIN g), NumExecuted(g), Cardinality(DOMAIN g) - NumExecuted(g)>>

\* C25: a get_stats() call that directly follows a get_stats() call returns
\* the same total, executed and pending counts, and no call of get_stats(),
\* get_execution_order() or get_parallel_groups() changes the counts that
\* the next get_stats() reports.
C25_CountsStableWithoutMarks ==
    [][/\ (ret.op = "get_stats" /\ ret'.op = "get_stats" /\ ret'.raised = "none")
          => Counts(ret'.stats) = Counts(ret.stats)
       /\ (phase = "built" /\ ret'.op \in {"get_stats", "get_execution_order",
                                           "get_parallel_groups"})
          => CountsOf(nodes') = CountsOf(nodes)]_vars

\* ---------------------------------------------------------------- the compliant orchestrator
\* The caller whose only operations are get_ready_suites() and
\* mark_executed on a suite that call returned and that it did not report
\* yet.  It keeps polling, and every worker finishes: both steps are
\* weakly fair.
CompliantPoll ==
    /\ phase = "built"
    /\ LET names == get_ready_suites(nodes, nodeKeys) IN
          /\ ret' = [NoRet EXCEPT !.op = "get_ready_suites", !.names = names]
          /\ orch' = [orch EXCEPT !.ready = Range(names)]
    /\ UNCHANGED <<suites, phase, nodes, nodeKeys, err, twin>>

CompliantMark ==
    /\ phase = "built"
    /\ \E name \in orch.ready, status \in Statuses :
          /\ nodes' = mark_executed(nodes, name, status)
          /\ ret' = [NoRet EXCEPT !.op = "mark_executed", !.arg = name]
          /\ orch' = [orch EXCEPT !.ready = @ \ {name}, !.marks = Bump(@, {name})]
    /\ UNCHANGED <<suites, phase, nodeKeys, err, twin>>

CompliantNext ==
    \/ Construct
    \/ CompliantPoll
    \/ CompliantMark

SpecCompliant ==
    /\ Init
    /\ [][CompliantNext]_vars
    /\ WF_vars(Construct)
    /\ WF_vars(CompliantPoll)
    /\ WF_vars(CompliantMark)

\* ---------------------------------------------------------------- C27
AllMarkedOnce ==
    \A n \in DOMAIN nodes : nodes[n].executed /\ Marked(n) /\ orch.marks[n] = 1

\* C27: under the compliant orchestrator, on a constructed graph, while a
\* suite is unexecuted get_ready_suites() is non-empty, every executed
\* suite has all its dependencies executed, no suite is marked twice, and
\* with fair polling and completion every suite is eventually marked
\* executed exactly once (pending reaches 0).
C27_CompliantOrchestratorProgress ==
    /\ [](phase = "built"
          => /\ (\E n \in DOMAIN nodes : ~nodes[n].executed)
                => get_ready_suites(nodes, nodeKeys) # <<>>
             /\ \A n \in DOMAIN nodes :
                   /\ nodes[n].executed
                      => \A d \in nodes[n].dependencies : nodes[d].executed
                   /\ orch.marks[n] = IF nodes[n].executed THEN 1 ELSE 0)
    /\ (phase = "built" ~> (phase = "built" /\ AllMarkedOnce))

\* three suites with a suite of two dependencies, all marked once, one failed
C27_Witness ==
    /\ phase = "built"
    /\ Len(nodeKeys) = 3
    /\ \E n \in DOMAIN nodes : Cardinality(nodes[n].dependencies) = 2
    /\ \E n \in DOMAIN nodes : nodes[n].status = "failed"
    /\ AllMarkedOnce

\* ---------------------------------------------------------------- C28
LevelSets(groups) == [k \in 1..Len(groups) |-> Range(groups[k])]

\* self.nodes as the constructor leaves it, before any call
FreshNodes == BuildEdges(suites, 1, 1, CreateNodes(suites, <<>>, <<>>).nodes).nodes

\* C28: whatever calls of mark_executed and get_execution_order() came
\* before, get_execution_order() returns, level by level as sets, the
\* groups it returns on the freshly constructed graph.
C28_PlanIndependentOfRuntimeState ==
    (phase = "built" /\ ret.op = "get_execution_order")
    => /\ ret.raised = "none"
       /\ \A ord \in Orders(nodeKeys, Dependents(FreshNodes)) :
             LevelSets(ret.groups)
             = LevelSets(ExecutionOrder(FreshNodes, nodeKeys, ord).groups)

\* a plan of several levels returned after a failure and a success were
\* reported through mark_executed
C28_Witness ==
    /\ phase = "built"
    /\ ret.op = "get_execution_order"
    /\ Len(ret.groups) >= 3
    /\ \E n \in DOMAIN nodes : nodes[n].status = "failed"
    /\ \E n \in DOMAIN nodes : nodes[n].status = "passed"

\* ---------------------------------------------------------------- C29
\* C29: mark_executed(name, status) changes nothing but the execution flag
\* and the status of the node called name: every other node, and the
\* suite, dependencies and dependents of that node, stay as they were; for
\* a name that is no node it changes nothing and raises nothing, and
\* is_ready of such a name returns false.
C29_MarkExecutedFrame ==
    /\ [][(phase = "built" /\ ret'.op = "mark_executed")
          => /\ ret'.raised = "none"
             /\ DOMAIN nodes' = DOMAIN nodes
             /\ nodeKeys' = nodeKeys
             /\ \A n \in DOMAIN nodes :
                   IF n = ret'.arg
                   THEN nodes'[n] = [nodes[n] EXCEPT !.executed = nodes'[n].executed,
                                                     !.status = nodes'[n].status]
                   ELSE nodes'[n] = nodes[n]]_vars
    /\ [](ret.op = "is_ready" /\ ret.arg \notin DOMAIN nodes
          => ret.ready = FALSE /\ ret.raised = "none")

\* mark_executed of a name that is no node, on a graph with an edge and a
\* reported suite
C29_Witness ==
    /\ phase = "built"
    /\ ret.op = "mark_executed"
    /\ ret.arg \notin DOMAIN nodes
    /\ \E n \in DOMAIN nodes : nodes[n].dependencies # {} /\ ~nodes[n].executed
    /\ \E n \in DOMAIN nodes : Marked(n)

\* ---------------------------------------------------------------- call depth of _detect_cycles
\* dfs is a nested function that calls itself for every WHITE dependency.
\* The operators below repeat the traversal of an acyclic graph and count
\* the dfs calls that are active at the same time: depth is the number of
\* the frames at the deepest point reached so far, frames the number of
\* dfs calls active around the current one.
RECURSIVE DfsCallDepth(_, _, _, _, _), DfsDepsCallDepth(_, _, _, _, _, _)
DfsCallDepth(name, color, frames, depth, ord) ==
    LET inside == frames + 1
        r == DfsDepsCallDepth(name, 1, [color EXCEPT ![name] = GRAY], inside,
                              IF inside > depth THEN inside ELSE depth, ord)
    IN [color |-> [r.color EXCEPT ![name] = BLACK], depth |-> r.depth]

DfsDepsCallDepth(name, i, color, frames, depth, ord) ==
    IF i > Len(ord[name]) THEN [color |-> color, depth |-> depth]
    ELSE LET dep == ord[name][i] IN
         IF color[dep] = WHITE
         THEN LET r == DfsCallDepth(dep, color, frames, depth, ord)
              IN DfsDepsCallDepth(name, i + 1, r.color, frames, r.depth, ord)
         ELSE DfsDepsCallDepth(name, i + 1, color, frames, depth, ord)

RECURSIVE DetectCallDepth(_, _, _, _, _)
DetectCallDepth(keys, i, color, depth, ord) ==
    IF i > Len(keys) THEN depth
    ELSE IF color[keys[i]] = WHITE
    THEN LET r == DfsCallDepth(keys[i], color, 0, depth, ord)
         IN DetectCallDepth(keys, i + 1, r.color, r.depth, ord)
    ELSE DetectCallDepth(keys, i + 1, color, depth, ord)

\* the deepest nesting of dfs calls while the constructor checks the graph
CallDepth(keys, ord) ==
    DetectCallDepth(keys, 1, [n \in Range(keys) |-> WHITE], 0, ord)

\* ---------------------------------------------------------------- C30
\* C30: cycle detection keeps its traversal on an explicit stack and does
\* not call itself, so that its call depth does not grow with the graph:
\* on every constructed graph, a chain included, no dfs call is ever
\* active inside another dfs call.
C30_TraversalDoesNotRecurse ==
    phase = "built"
    => \A ord \in Orders(nodeKeys, Dependencies(nodes)) : CallDepth(nodeKeys, ord) <= 1
====
